---- MODULE Spec2Model ----
(***************************************************************************)
(* Model of the log aggregation engine of the Mailcow delivery report:     *)
(* process_logs of archive/mailcow_email_delivery_report_up_the_shit.py    *)
(* with the helpers it calls, and the record filters and summary counts   *)
(* of print_report; process_logs of the simple-search variant; and         *)
(* filter_entries of mailcow_delivery_report.py.                           *)
(*                                                                         *)
(* Text is a sequence of one-character strings (a queue id is kept as one  *)
(* atom).  A Python Optional is a sequence of length 0 (None) or 1.        *)
(***************************************************************************)
EXTENDS Integers, Sequences, FiniteSets, TLC

VARIABLES
    date_filter,     \* argument date_filter of process_logs (text)
    time_filter,     \* argument time_filter of process_logs (optional text)
    today,           \* datetime.now() as <<month, day>>
    pc,              \* "start", "scan", "done" (returned), "error" (raised), "reported"
    start_datetime,  \* local start_datetime (optional ordinal)
    date_patterns,   \* local date_patterns (optional list of texts)
    lines,           \* the lines the for loop has consumed so far, in order
    path,            \* for each consumed line, the branch that ended its iteration
    messages,        \* local dict messages: queue id -> record
    order,           \* insertion order of the keys of messages
    query,           \* arguments search_term, search_type, status_filter of print_report
    report,          \* the rows print_report prints, in order
    summary,         \* the counts print_report prints after the rows (optional)
    again            \* a second call of process_logs on the same arguments (optional):
                     \* its clock, whether it raised, the dict it returned

reportVars == <<query, report, summary, again>>

\* The main CLI, mailcow_delivery_report.py.
VARIABLES
    entries,         \* the list get_delivery_report has built so far
    criteria,        \* arguments recipient, status, queue_id of filter_entries (optional)
    filtered         \* the list filter_entries returned (optional)

entryVars == <<entries, criteria, filtered>>

\* The simple-search variant, email_delivery_report_simple_search_direct_log_file_lookup.py.
VARIABLES
    search           \* arguments search_term, search_type of its process_logs (optional)

vars == <<date_filter, time_filter, today, pc, start_datetime, date_patterns,
          lines, path, messages, order, reportVars, entryVars, search>>

\* The number of lines of one scan.
MaxLines == 2

None == <<>>
Some(x) == <<x>>

\* Python truthiness of an Optional str: None and '' are both false.
Truthy(opt) == opt # None /\ opt[1] # <<>>

Digits == {"0", "1", "2", "3", "4", "5", "6", "7", "8", "9"}
Upper == {"A", "B", "C", "D", "E", "F", "G", "H", "I", "J", "K", "L", "M", "N", "O", "P",
          "Q", "R", "S", "T", "U", "V", "W", "X", "Y", "Z"}
Lower == {"a", "b", "c", "d", "e", "f", "g", "h", "i", "j", "k", "l", "m", "n", "o", "p",
          "q", "r", "s", "t", "u", "v", "w", "x", "y", "z"}

DigitVal(c) ==
    CASE c = "0" -> 0 [] c = "1" -> 1 [] c = "2" -> 2 [] c = "3" -> 3 [] c = "4" -> 4
      [] c = "5" -> 5 [] c = "6" -> 6 [] c = "7" -> 7 [] c = "8" -> 8 [] c = "9" -> 9

DigitChar(n) ==
    CASE n = 0 -> "0" [] n = 1 -> "1" [] n = 2 -> "2" [] n = 3 -> "3" [] n = 4 -> "4"
      [] n = 5 -> "5" [] n = 6 -> "6" [] n = 7 -> "7" [] n = 8 -> "8" [] n = 9 -> "9"

\* str.isdigit(): non-empty and every character a digit.
IsDigit(t) == t # <<>> /\ \A k \in 1..Len(t) : t[k] \in Digits

RECURSIVE DigitsToInt(_, _)
DigitsToInt(t, acc) ==
    IF t = <<>> THEN acc ELSE DigitsToInt(Tail(t), 10 * acc + DigitVal(Head(t)))

RECURSIVE Strip(_)
Strip(t) ==
    IF t # <<>> /\ Head(t) = " " THEN Strip(Tail(t))
    ELSE IF t # <<>> /\ t[Len(t)] = " " THEN Strip(SubSeq(t, 1, Len(t) - 1))
    ELSE t

\* int(s) on a str: surrounding blanks stripped, an optional sign, then digits;
\* anything else raises ValueError.
PyInt(t) ==
    LET s == Strip(t)
        signed == s # <<>> /\ Head(s) \in {"+", "-"}
        body == IF signed THEN Tail(s) ELSE s
    IN  IF IsDigit(body)
        THEN [raised |-> FALSE,
              val |-> IF signed /\ Head(s) = "-" THEN 0 - DigitsToInt(body, 0)
                      ELSE DigitsToInt(body, 0)]
        ELSE [raised |-> TRUE, val |-> 0]

\* str(n) for n >= 0.
RECURSIVE IntToText(_)
IntToText(n) ==
    IF n < 10 THEN <<DigitChar(n)>> ELSE IntToText(n \div 10) \o <<DigitChar(n % 10)>>

RECURSIVE SplitRec(_, _, _, _)
SplitRec(t, cur, acc, seps) ==
    IF t = <<>> THEN Append(acc, cur)
    ELSE IF Head(t) \in seps THEN SplitRec(Tail(t), <<>>, Append(acc, cur), seps)
    ELSE SplitRec(Tail(t), Append(cur, Head(t)), acc, seps)

\* s.split(':'): empty pieces are kept.
SplitColon(t) == SplitRec(t, <<>>, <<>>, {":"})

\* s.split(): runs of blanks separate, empty pieces are dropped.
SplitBlank(t) == SelectSeq(SplitRec(t, <<>>, <<>>, {" "}), LAMBDA p : p # <<>>)

\* pattern in text
Contains(text, pat) ==
    \E k \in 0..(Len(text) - Len(pat)) : SubSeq(text, k + 1, k + Len(pat)) = pat

MonthAbbr ==
    << <<"J","a","n">>, <<"F","e","b">>, <<"M","a","r">>, <<"A","p","r">>,
       <<"M","a","y">>, <<"J","u","n">>, <<"J","u","l">>, <<"A","u","g">>,
       <<"S","e","p">>, <<"O","c","t">>, <<"N","o","v">>, <<"D","e","c">> >>

\* datetime.strptime(s, '%b').month; raises ValueError when s is no month
\* abbreviation (also when text follows one).
Strptime(s) ==
    IF \E m \in 1..12 : MonthAbbr[m] = s
    THEN [raised |-> FALSE, val |-> CHOOSE m \in 1..12 : MonthAbbr[m] = s]
    ELSE [raised |-> TRUE, val |-> 0]

\* re.match(r'[A-Z][a-z]{2}', part): anchored at the start only.
MatchesMonthWord(part) ==
    Len(part) >= 3 /\ part[1] \in Upper /\ part[2] \in Lower /\ part[3] \in Lower

\* Days of each month of the current year (taken as a common year).
DaysIn(m) == <<31, 28, 31, 30, 31, 30, 31, 31, 30, 31, 30, 31>>[m]

RECURSIVE DaysBefore(_)
DaysBefore(m) == IF m = 1 THEN 0 ELSE DaysBefore(m - 1) + DaysIn(m - 1)

\* datetime(year, month, day, hour, minute, second) of the current year: None
\* stands for the ValueError its callers catch, otherwise a comparable ordinal.
MakeDatetime(month, day, hour, minute, second) ==
    IF /\ day >= 1 /\ day <= DaysIn(month)
       /\ hour >= 0 /\ hour <= 23
       /\ minute >= 0 /\ minute <= 59
       /\ second >= 0 /\ second <= 59
    THEN Some((((DaysBefore(month) + day) * 24 + hour) * 60 + minute) * 60 + second)
    ELSE None

IsNumPart(part) == IsDigit(part) /\ Len(part) <= 2
IsMonthPart(part) == ~IsNumPart(part) /\ MatchesMonthWord(part)

\* The last element of a list of parts, as an Optional.
LastOf(hits) == IF hits = <<>> THEN None ELSE Some(hits[Len(hits)])

\* hour, minute, second of time_str (split at ':'; missing pieces are 0); int()
\* of a piece may raise.
ParseTimeParts(time_str) ==
    LET time_parts == SplitColon(time_str)
        piece(k) == IF Len(time_parts) >= k THEN PyInt(time_parts[k])
                    ELSE [raised |-> FALSE, val |-> 0]
    IN  [raised |-> piece(1).raised \/ piece(2).raised \/ piece(3).raised,
         hour |-> piece(1).val, minute |-> piece(2).val, second |-> piece(3).val]

\* parse_date_time_for_comparison(date_str, time_str): raised when a ValueError
\* escapes (strptime of the month word, int() of a time piece), else val is
\* the datetime or None.
parse_date_time_for_comparison(date_str, time_str) ==
    LET parts == SplitBlank(date_str)
        num_part == LastOf(SelectSeq(parts, IsNumPart))
        month_part == LastOf(SelectSeq(parts, IsMonthPart))
        num == IF num_part = None THEN 0 ELSE DigitsToInt(num_part[1], 0)
        month_num == Strptime(month_part[1])
        tm == IF Truthy(time_str) THEN ParseTimeParts(time_str[1])
              ELSE [raised |-> FALSE, hour |-> 0, minute |-> 0, second |-> 0]
    IN  IF date_str = <<>> THEN [raised |-> FALSE, val |-> None]
        ELSE IF num = 0 \/ month_part = None THEN [raised |-> FALSE, val |-> None]
        ELSE IF month_num.raised THEN [raised |-> TRUE, val |-> None]
        ELSE IF tm.raised THEN [raised |-> TRUE, val |-> None]
        ELSE [raised |-> FALSE,
              val |-> MakeDatetime(month_num.val, num, tm.hour, tm.minute, tm.second)]

\* date - timedelta(days=1) on <<month, day>>.
PrevDay(d) ==
    IF d[2] > 1 THEN <<d[1], d[2] - 1>>
    ELSE IF d[1] > 1 THEN <<d[1] - 1, DaysIn(d[1] - 1)>>
    ELSE <<12, 31>>

RECURSIVE DaysAgo(_, _)
DaysAgo(d, i) == IF i = 0 THEN d ELSE DaysAgo(PrevDay(d), i - 1)

\* Mutant: one blank before every day number.
DatePattern_OneBlank(d) == MonthAbbr[d[1]] \o <<" ">> \o IntToText(d[2])

\* The syslog date text searched for: two blanks before a one-digit day.
DatePattern(d) ==
    IF d[2] < 10 THEN MonthAbbr[d[1]] \o <<" ", " ">> \o IntToText(d[2])
    ELSE MonthAbbr[d[1]] \o <<" ">> \o IntToText(d[2])

\* Mutant: an input that is no number is taken as "today only".
parse_date_filter_BadIsToday(date_input, now) ==
    LET days_back == PyInt(date_input)
    IN  IF date_input = <<>> THEN None
        ELSE IF days_back.raised THEN Some(<<DatePattern(now)>>)
        ELSE Some([i \in 1..(days_back.val + 1) |-> DatePattern(DaysAgo(now, i - 1))])

\* parse_date_filter(date_input): the list of patterns for today .. days_back
\* days ago, or None when date_input is empty or no integer.
parse_date_filter(date_input, now) ==
    LET days_back == PyInt(date_input)
    IN  IF date_input = <<>> THEN None
        ELSE IF days_back.raised THEN None
        ELSE Some([i \in 1..(days_back.val + 1) |-> DatePattern(DaysAgo(now, i - 1))])

(***************************************************************************)
(* A log line is kept as what the regular expressions and substring tests  *)
(* of the program find in it:                                              *)
(*   ts      the first `Mon <blanks> digits <blanks> HH:MM:SS` token        *)
(*           (optional): [mon, sp, day, time], sp the number of blanks     *)
(*   qid     the first 10-12 character hex token (optional)                *)
(*   from    the text inside from=<...> (optional, may be empty)           *)
(*   to      the text inside to=<...> (optional, may be empty)             *)
(*   size    the digits after size= (optional)                             *)
(*   markers the literal markers the line contains                         *)
(***************************************************************************)
BlockedMarkers ==
    {"NOQUEUE: reject", "NOQUEUE: filter", "milter-reject", "status=bounced",
     "status=deferred"}
SentMarker == "status=sent"
SendgridMarker == "smtp_via_transport_maps:smtp.sendgrid.net"

Blanks(n) == [k \in 1..n |-> " "]

\* The text of a timestamp token as it stands in the line.
TsText(ts) == ts.mon \o Blanks(ts.sp) \o ts.day \o <<" ">> \o ts.time

\* The raw text of a line, as far as date patterns can occur in it.
RawText(line) ==
    (IF line.ts = None THEN <<>> ELSE TsText(line.ts[1]) \o <<" ">>)
    \o (IF line.qid = None THEN <<"-">> ELSE line.qid[1])

extract_queue_id(line) == line.qid

\* extract_field(line, r'from=<([^>]*)>') and the like.
extract_from(line) == line.from
extract_to(line) == line.to
extract_size(line) == line.size

\* Mutant: the matched text is kept as it stands in the line.
extract_timestamp_Raw(line) ==
    IF line.ts = None THEN None ELSE Some(TsText(line.ts[1]))

\* extract_timestamp(line): "<int(day)> <month> <time>", or None.
extract_timestamp(line) ==
    IF line.ts = None THEN None
    ELSE LET ts == line.ts[1]
         IN  Some(IntToText(DigitsToInt(ts.day, 0)) \o <<" ">> \o ts.mon \o <<" ">> \o ts.time)

is_blocked(line) == line.markers \cap BlockedMarkers # {}
is_sendgrid(line) == SendgridMarker \in line.markers

\* parse_timestamp_from_line(line): raised when strptime rejects the month word.
parse_timestamp_from_line(line) ==
    IF line.ts = None THEN [raised |-> FALSE, val |-> None]
    ELSE LET ts == line.ts[1]
             month_num == Strptime(ts.mon)
         IN  IF month_num.raised THEN [raised |-> TRUE, val |-> None]
             ELSE [raised |-> FALSE,
                   val |-> MakeDatetime(month_num.val, DigitsToInt(ts.day, 0),
                                        DigitsToInt(SubSeq(ts.time, 1, 2), 0),
                                        DigitsToInt(SubSeq(ts.time, 4, 5), 0),
                                        DigitsToInt(SubSeq(ts.time, 7, 8), 0))]

\* should_include_log_line(line, start_datetime), start_datetime an Optional.
should_include_log_line(line, start) ==
    LET line_datetime == parse_timestamp_from_line(line)
    IN  IF start = None THEN [raised |-> FALSE, val |-> TRUE]
        ELSE IF line_datetime.raised THEN [raised |-> TRUE, val |-> FALSE]
        ELSE IF line_datetime.val = None THEN [raised |-> FALSE, val |-> FALSE]
        ELSE [raised |-> FALSE, val |-> line_datetime.val[1] >= start[1]]

\* any(pattern in line for pattern in date_patterns)
MatchesAnyPattern(line, patterns) ==
    \E k \in 1..Len(patterns) : Contains(RawText(line), patterns[k])

\* The date/time filter at the head of the loop body: "pass", "filtered"
\* (continue) or "raised".
FilterLine(line, start, patterns) ==
    IF start # None
    THEN LET inc == should_include_log_line(line, start)
         IN  IF inc.raised THEN "raised" ELSE IF inc.val THEN "pass" ELSE "filtered"
    ELSE IF patterns # None /\ patterns[1] # <<>>
    THEN IF MatchesAnyPattern(line, patterns[1]) THEN "pass" ELSE "filtered"
    ELSE "pass"

DASH == <<"-">>

\* The entry of a queue id seen for the first time.
NewRecord ==
    [from |-> DASH, to |-> DASH, size |-> DASH, status |-> "-", sg |-> "No", time |-> DASH]

\* x or "-"
OrDash(opt) == IF Truthy(opt) THEN opt[1] ELSE DASH

\* Mutant: the blocking line's own timestamp is stored.
BlockedRecord_OwnTime(line, dfilter) ==
    [from |-> OrDash(extract_from(line)),
     to |-> OrDash(extract_to(line)),
     size |-> DASH,
     status |-> "blocked",
     sg |-> IF is_sendgrid(line) THEN "Yes" ELSE "No",
     time |-> OrDash(extract_timestamp(line))]

\* The entry a blocking line puts in place of the old one.
BlockedRecord(line, dfilter) ==
    [from |-> OrDash(extract_from(line)),
     to |-> OrDash(extract_to(line)),
     size |-> DASH,
     status |-> "blocked",
     sg |-> IF is_sendgrid(line) THEN "Yes" ELSE "No",
     time |-> IF dfilter # <<>> THEN dfilter ELSE DASH]

\* Mutant: a field is taken only while the entry has none (first value wins).
MergeFields_FirstWins(rec, line) ==
    [rec EXCEPT
        !.from = IF @ = DASH /\ Truthy(extract_from(line)) THEN extract_from(line)[1] ELSE @,
        !.to = IF @ = DASH /\ Truthy(extract_to(line)) THEN extract_to(line)[1] ELSE @,
        !.size = IF @ = DASH /\ Truthy(extract_size(line)) THEN extract_size(line)[1] ELSE @]

\* The fields a standard line overwrites when it carries them.
MergeFields(rec, line) ==
    [rec EXCEPT
        !.from = IF Truthy(extract_from(line)) THEN extract_from(line)[1] ELSE @,
        !.to = IF Truthy(extract_to(line)) THEN extract_to(line)[1] ELSE @,
        !.size = IF Truthy(extract_size(line)) THEN extract_size(line)[1] ELSE @]

\* Mutant: a line without status=sent clears the outcome.
MergeStatus_Reset(rec, line) ==
    [rec EXCEPT !.status = IF SentMarker \in line.markers THEN "sent" ELSE "-"]

MergeStatus(rec, line) ==
    [rec EXCEPT !.status = IF SentMarker \in line.markers THEN "sent" ELSE @]

\* Mutant: the flag is what the line says, a line without the marker clears it.
MergeSendgrid_Reset(rec, line) ==
    [rec EXCEPT !.sg = IF is_sendgrid(line) THEN "Yes" ELSE "No"]

\* The relay flag is set by a line with the marker and left alone otherwise.
MergeSendgrid(rec, line) ==
    [rec EXCEPT !.sg = IF is_sendgrid(line) THEN "Yes" ELSE @]

\* Mutant: every line that carries a timestamp overwrites it.
MergeTime_Always(rec, line) ==
    IF Truthy(extract_timestamp(line))
    THEN [rec EXCEPT !.time = extract_timestamp(line)[1]]
    ELSE rec

\* The timestamp is taken only while the entry has none.
MergeTime(rec, line) ==
    IF rec.time = DASH /\ Truthy(extract_timestamp(line))
    THEN [rec EXCEPT !.time = extract_timestamp(line)[1]]
    ELSE rec

MergeLine(rec, line) == MergeTime(MergeSendgrid(MergeStatus(MergeFields(rec, line), line), line), line)

\* messages with key q set to rec (a new key is added, an old one keeps its place).
Put(msgs, q, rec) == [k \in DOMAIN msgs \cup {q} |-> IF k = q THEN rec ELSE msgs[k]]

\* if qid not in messages: messages[qid] = {...defaults...}
EnsureRecord(msgs, q) == IF q \in DOMAIN msgs THEN msgs ELSE Put(msgs, q, NewRecord)

\* Mutant: the blocking line keeps a relay flag that was set before it.
ReplaceBlocked_KeepSg(rec, line, dfilter) ==
    [BlockedRecord(line, dfilter) EXCEPT !.sg = IF rec.sg = "Yes" THEN "Yes" ELSE @]

\* Mutant: the blocking line is merged into the old entry.
ReplaceBlocked_Merge(rec, line, dfilter) == [MergeFields(rec, line) EXCEPT !.status = "blocked"]

\* What a blocking line makes of the entry rec: the old entry is dropped whole.
ReplaceBlocked(rec, line, dfilter) == BlockedRecord(line, dfilter)

\* Mutant: the `continue` after the blocked replacement is missing, the
\* blocking line is merged as well.
AfterFilter_NoContinue(line, msgs, dfilter) ==
    LET qid == extract_queue_id(line)
        q == qid[1]
        init == EnsureRecord(msgs, q)
    IN  IF ~Truthy(qid) THEN [path |-> "noqid", msgs |-> msgs]
        ELSE IF is_blocked(line)
        THEN [path |-> "blocked",
              msgs |-> Put(init, q, MergeLine(ReplaceBlocked(init[q], line, dfilter), line))]
        ELSE [path |-> "merged", msgs |-> Put(init, q, MergeLine(init[q], line))]

\* The loop body after the date filter: the branch taken and the dict after it.
AfterFilter(line, msgs, dfilter) ==
    LET qid == extract_queue_id(line)
        q == qid[1]
        init == EnsureRecord(msgs, q)
    IN  IF ~Truthy(qid) THEN [path |-> "noqid", msgs |-> msgs]
        ELSE IF is_blocked(line)
        THEN [path |-> "blocked", msgs |-> Put(init, q, ReplaceBlocked(init[q], line, dfilter))]
        ELSE [path |-> "merged", msgs |-> Put(init, q, MergeLine(init[q], line))]

\* Mutant: the `continue` of the date filter is missing, a filtered line is
\* processed all the same.
LoopBody_NoSkip(line, msgs, start, patterns, dfilter) ==
    LET f == FilterLine(line, start, patterns)
    IN  IF f = "raised" THEN [path |-> f, msgs |-> msgs]
        ELSE IF f = "filtered"
        THEN [path |-> f, msgs |-> AfterFilter(line, msgs, dfilter).msgs]
        ELSE AfterFilter(line, msgs, dfilter)

\* One iteration of the for loop of process_logs on msgs: the branch that ends
\* it ("filtered", "raised", "noqid", "blocked", "merged") and the dict after it.
LoopBody(line, msgs, start, patterns, dfilter) ==
    LET f == FilterLine(line, start, patterns)
    IN  IF f # "pass" THEN [path |-> f, msgs |-> msgs]
        ELSE AfterFilter(line, msgs, dfilter)

\* Mutant: a blocking line removes the key and inserts it anew, at the end.
OrderAfter_BlockedMovesLast(keys, branch, qid) ==
    IF branch = "blocked"
    THEN SelectSeq(keys, LAMBDA k : k # qid[1]) \o <<qid[1]>>
    ELSE IF branch = "merged" /\ \A i \in 1..Len(keys) : keys[i] # qid[1]
    THEN Append(keys, qid[1])
    ELSE keys

\* The key order of the dict after an iteration that took branch on a line
\* with queue id qid: assigning to a key the dict holds keeps its place.
OrderAfter(keys, branch, qid) ==
    IF branch \in {"blocked", "merged"} /\ \A i \in 1..Len(keys) : keys[i] # qid[1]
    THEN Append(keys, qid[1])
    ELSE keys

\* The for loop of process_logs over all of ls, from the dict msgs.
RECURSIVE ScanAll(_, _, _, _, _)
ScanAll(ls, msgs, start, patterns, dfilter) ==
    IF ls = <<>> THEN [raised |-> FALSE, val |-> msgs]
    ELSE LET r == LoopBody(Head(ls), msgs, start, patterns, dfilter)
         IN  IF r.path = "raised" THEN [raised |-> TRUE, val |-> r.msgs]
             ELSE ScanAll(Tail(ls), r.msgs, start, patterns, dfilter)

\* One whole call process_logs(ls, dfilter, tfilter) with the clock at now:
\* whether it raised, and the dict it returned.
process_logs(ls, dfilter, tfilter, now) ==
    LET r == parse_date_time_for_comparison(dfilter, tfilter)
        patterns == IF dfilter # <<>> /\ r.val = None
                    THEN parse_date_filter(dfilter, now)
                    ELSE None
    IN  IF r.raised THEN [raised |-> TRUE, val |-> <<>>]
        ELSE ScanAll(ls, <<>>, r.val, patterns, dfilter)

(***************************************************************************)
(* print_report: the records it keeps, in the order of the dict.  A dict   *)
(* is its key order (keys) with the records of msgs; status_filter is ""   *)
(* for None.                                                               *)
(***************************************************************************)
Capitals == <<"A", "B", "C", "D", "E", "F", "G", "H", "I", "J", "K", "L", "M",
              "N", "O", "P", "Q", "R", "S", "T", "U", "V", "W", "X", "Y", "Z">>
Smalls == <<"a", "b", "c", "d", "e", "f", "g", "h", "i", "j", "k", "l", "m",
            "n", "o", "p", "q", "r", "s", "t", "u", "v", "w", "x", "y", "z">>

LetterIndex(c, alphabet) == CHOOSE i \in 1..Len(alphabet) : alphabet[i] = c

\* str.lower()
lower(t) == [i \in 1..Len(t) |->
                IF t[i] \in Upper THEN Smalls[LetterIndex(t[i], Capitals)] ELSE t[i]]

\* str.upper()
upper(t) == [i \in 1..Len(t) |->
                IF t[i] \in Lower THEN Capitals[LetterIndex(t[i], Smalls)] ELSE t[i]]

\* Mutant: a timestamp alone makes a record useful.
IsUseful_OrTime(info) ==
    info.from # DASH \/ info.to # DASH \/ info.size # DASH \/ info.status # "-"
        \/ info.time # DASH

\* info["from"] != "-" or info["to"] != "-" or info["size"] != "-" or info["status"] != "-"
IsUseful(info) ==
    info.from # DASH \/ info.to # DASH \/ info.size # DASH \/ info.status # "-"

from_match(info, search_lower) == info.from # DASH /\ Contains(lower(info.from), search_lower)
to_match(info, search_lower) == info.to # DASH /\ Contains(lower(info.to), search_lower)

\* Mutant: a recipient search looks at the sender as well.
MatchesSearch_RecipientAsBoth(info, search_term, search_type) ==
    LET search_lower == lower(search_term)
    IN  IF search_type = "sender" THEN from_match(info, search_lower)
        ELSE from_match(info, search_lower) \/ to_match(info, search_lower)

\* The test of the search loop on one record.
MatchesSearch(info, search_term, search_type) ==
    LET search_lower == lower(search_term)
    IN  IF search_type = "sender" THEN from_match(info, search_lower)
        ELSE IF search_type = "recipient" THEN to_match(info, search_lower)
        ELSE from_match(info, search_lower) \/ to_match(info, search_lower)

\* Mutant: the branch of 'unknown' is missing.
MatchesStatus_NoUnknown(info, status_filter) ==
    IF status_filter = "success" THEN info.status = "sent"
    ELSE IF status_filter = "blocked" THEN info.status = "blocked"
    ELSE TRUE

\* The test of the status comprehensions on one record.
MatchesStatus(info, status_filter) ==
    IF status_filter = "success" THEN info.status = "sent"
    ELSE IF status_filter = "blocked" THEN info.status = "blocked"
    ELSE IF status_filter = "unknown" THEN info.status = "-"
    ELSE TRUE

UsefulKeys(msgs, keys) == SelectSeq(keys, LAMBDA q : IsUseful(msgs[q]))

SearchKeys(msgs, keys, search_term, search_type) ==
    IF search_term # <<>>
    THEN SelectSeq(keys, LAMBDA q : MatchesSearch(msgs[q], search_term, search_type))
    ELSE keys

StatusKeys(msgs, keys, status_filter) ==
    IF status_filter # ""
    THEN SelectSeq(keys, LAMBDA q : MatchesStatus(msgs[q], status_filter))
    ELSE keys

\* The data rows of print_report, in print order: each the queue id (not
\* printed) and the record.
print_report(msgs, keys, search_term, search_type, status_filter) ==
    LET useful_messages ==
            StatusKeys(msgs,
                       SearchKeys(msgs, UsefulKeys(msgs, keys), search_term, search_type),
                       status_filter)
    IN  [i \in 1..Len(useful_messages) |->
            [qid |-> useful_messages[i], info |-> msgs[useful_messages[i]]]]

\* sum(1 for msg in useful_messages.values() if msg['status'] == status)
CountStatus(rows, status) == Cardinality({i \in 1..Len(rows) : rows[i].info.status = status})

\* Mutant: the unknown count looks for the word 'unknown', not for '-'.
status_counts_UnknownWord(rows) ==
    [total |-> Len(rows),
     sent_count |-> CountStatus(rows, "sent"),
     blocked_count |-> CountStatus(rows, "blocked"),
     unknown_count |-> CountStatus(rows, "unknown")]

\* The summary statistics of print_report on the rows it printed.
status_counts(rows) ==
    [total |-> Len(rows),
     sent_count |-> CountStatus(rows, "sent"),
     blocked_count |-> CountStatus(rows, "blocked"),
     unknown_count |-> CountStatus(rows, "-")]

(***************************************************************************)
(* filter_entries of mailcow_delivery_report.py.  An entry is what the     *)
(* filter reads of the dict parse_log_entry returns: queue_id, email,      *)
(* status, each a text.                                                    *)
(***************************************************************************)
\* Mutant: the queue id is compared as given, without upper().
filter_entries_ExactQueueId(all, recipient, status, queue_id) ==
    LET by_recipient ==
            IF Truthy(recipient)
            THEN SelectSeq(all, LAMBDA e : Contains(lower(e.email), lower(recipient[1])))
            ELSE all
        by_status ==
            IF Truthy(status)
            THEN SelectSeq(by_recipient, LAMBDA e : e.status = lower(status[1]))
            ELSE by_recipient
    IN  IF Truthy(queue_id)
        THEN SelectSeq(by_status, LAMBDA e : e.queue_id = queue_id[1])
        ELSE by_status

filter_entries(all, recipient, status, queue_id) ==
    LET by_recipient ==
            IF Truthy(recipient)
            THEN SelectSeq(all, LAMBDA e : Contains(lower(e.email), lower(recipient[1])))
            ELSE all
        by_status ==
            IF Truthy(status)
            THEN SelectSeq(by_recipient, LAMBDA e : e.status = lower(status[1]))
            ELSE by_recipient
    IN  IF Truthy(queue_id)
        THEN SelectSeq(by_status, LAMBDA e : e.queue_id = upper(queue_id[1]))
        ELSE by_status

(***************************************************************************)
(* process_logs of the simple-search variant: the date filter is a         *)
(* substring test, the search is applied to each line, the timestamp is    *)
(* kept as it stands in the line.                                          *)
(***************************************************************************)
SimpleBlockedMarkers == {"NOQUEUE: reject", "NOQUEUE: filter"}

simple_is_blocked(line) == line.markers \cap SimpleBlockedMarkers # {}

simple_extract_timestamp(line) ==
    IF line.ts = None THEN None ELSE Some(TsText(line.ts[1]))

\* `search_lower not in extract_field(...) or ""`: the `in` test is applied to
\* what extract_field returned, and raises TypeError when that is None.
\* "raised", "skip" (continue) or "pass".
SearchOneField(field, search_lower) ==
    IF field = None THEN "raised"
    ELSE IF ~Contains(field[1], search_lower) THEN "skip"
    ELSE "pass"

\* search_lower in (extract_field(...) or "").lower()
FieldMatch(field, search_lower) ==
    Contains(lower(IF Truthy(field) THEN field[1] ELSE <<>>), search_lower)

\* The search filter of the loop body on one line.
SearchLine(line, search_term, search_type) ==
    LET search_lower == lower(search_term)
    IN  IF search_type = "sender" THEN SearchOneField(extract_from(line), search_lower)
        ELSE IF search_type = "recipient" THEN SearchOneField(extract_to(line), search_lower)
        ELSE IF FieldMatch(extract_from(line), search_lower)
                  \/ FieldMatch(extract_to(line), search_lower)
             THEN "pass" ELSE "skip"

simple_MergeTime(rec, line) ==
    IF rec.time = DASH /\ Truthy(simple_extract_timestamp(line))
    THEN [rec EXCEPT !.time = simple_extract_timestamp(line)[1]]
    ELSE rec

\* One iteration of the for loop of the variant's process_logs: the branch that
\* ends it ("filtered", "skip", "raised", "noqid", "blocked", "merged") and the
\* dict after it.
simple_LoopBody(line, msgs, search_term, search_type, dfilter) ==
    LET found == SearchLine(line, search_term, search_type)
        qid == extract_queue_id(line)
        q == qid[1]
        init == EnsureRecord(msgs, q)
    IN  IF dfilter # <<>> /\ ~Contains(RawText(line), dfilter)
        THEN [path |-> "filtered", msgs |-> msgs]
        ELSE IF found # "pass" THEN [path |-> found, msgs |-> msgs]
        ELSE IF ~Truthy(qid) THEN [path |-> "noqid", msgs |-> msgs]
        ELSE IF simple_is_blocked(line)
        THEN [path |-> "blocked", msgs |-> Put(init, q, BlockedRecord(line, dfilter))]
        ELSE [path |-> "merged",
              msgs |-> Put(init, q,
                           simple_MergeTime(
                               MergeSendgrid(MergeStatus(MergeFields(init[q], line), line), line),
                               line))]

(***************************************************************************)
(* The inputs: the lines a scan may meet, the filter arguments, the clock. *)
(***************************************************************************)
Dec == MonthAbbr[12]
Foo == <<"F", "o", "o">>
TwoDigits(n) == <<DigitChar(n \div 10), DigitChar(n % 10)>>
Clock(h, m, s) == TwoDigits(h) \o <<":">> \o TwoDigits(m) \o <<":">> \o TwoDigits(s)
Ts(mon, sp, day, time) == Some([mon |-> mon, sp |-> sp, day |-> day, time |-> time])

Q1 == Some(<<"ABCDEF1234">>)
Q2 == Some(<<"AA11BB22CC33">>)
AddrA == Some(<<"a", "@", "x">>)
AddrB == Some(<<"b", "@", "y">>)
AddrC == Some(<<"c", "@", "z">>)
AddrD == Some(<<"d", "@", "w">>)
Empty == Some(<<>>)
Size512 == Some(<<"5", "1", "2">>)
Size2048 == Some(<<"2", "0", "4", "8">>)

Line(ts, qid, from, to, size, markers) ==
    [ts |-> ts, qid |-> qid, from |-> from, to |-> to, size |-> size, markers |-> markers]

TsLate == Ts(Dec, 1, <<"1", "0">>, Clock(10, 0, 5))

\* Lines of the 10th, 10:00:05, of every kind of content.
ContentLines ==
    { Line(TsLate, Q1, None, None, None, {}),
      Line(TsLate, Q1, AddrA, None, Size512, {}),
      Line(TsLate, Q1, AddrC, None, Size2048, {}),
      Line(TsLate, Q1, Empty, None, Size512, {}),
      Line(TsLate, Q1, None, AddrB, None, {SentMarker}),
      Line(TsLate, Q1, None, AddrD, None, {SentMarker, SendgridMarker}),
      Line(TsLate, Q1, None, AddrB, None, {"status=deferred"}),
      Line(TsLate, Q1, AddrC, None, None, {"NOQUEUE: reject"}),
      Line(TsLate, Q1, Empty, AddrD, None, {"status=bounced", SendgridMarker}),
      Line(TsLate, Q1, AddrA, AddrB, Size512, {"milter-reject", SentMarker}),
      Line(TsLate, Q1, None, None, None, {"NOQUEUE: filter"}),
      Line(TsLate, Q2, AddrA, None, Size512, {}),
      Line(TsLate, Q2, None, AddrB, None, {"status=deferred"}),
      Line(TsLate, None, AddrA, None, None, {}) }

\* Lines of one content (queue id, sender) with every kind of timestamp token.
StampLines ==
    { Line(ts, Q1, AddrA, None, None, {}) :
        ts \in { None,
                 Ts(Dec, 2, <<"8">>, Clock(10, 0, 0)),
                 Ts(Dec, 2, <<"9">>, Clock(23, 59, 59)),
                 Ts(Dec, 1, <<"9">>, Clock(10, 0, 0)),
                 Ts(Dec, 1, <<"1", "0">>, Clock(9, 0, 0)),
                 Ts(Foo, 1, <<"1", "2">>, Clock(10, 0, 0)),
                 Ts(Dec, 1, <<"4", "5">>, Clock(10, 0, 0)) } }

\* The two lines of one delivery on the 5th: the sender, then the recipient
\* with the size and status=sent.
ExampleFirst == Line(Ts(Dec, 2, <<"5">>, Clock(10, 0, 0)), Q1, AddrA, None, None, {})
ExampleSecond == Line(Ts(Dec, 2, <<"5">>, Clock(10, 0, 5)), Q1, None, AddrB, Size512, {SentMarker})
ExampleLines == {ExampleFirst, ExampleSecond}

Lines == ContentLines \cup StampLines \cup ExampleLines

\* The number of lines of one run of main.
MaxMail == 3

AddrUp == Some(<<"A", "@", "y">>)

\* The lines a run of main may meet.
MailLines ==
    ExampleLines \cup
    { Line(TsLate, Q1, AddrC, None, None, {"NOQUEUE: reject"}),
      Line(TsLate, Q1, None, None, None, {}),
      Line(TsLate, Q2, None, None, None, {SendgridMarker}),
      Line(TsLate, Q2, AddrA, None, Size512, {}),
      Line(TsLate, Q2, None, AddrB, None, {"status=deferred"}),
      Line(TsLate, Q2, None, AddrUp, None, {SentMarker}) }

\* The arguments of print_report.
SearchTerms == { <<>>, <<"A", "@">>, <<"Y">>, <<"-">> }
SearchTypes == {"sender", "recipient", "both"}
StatusFilters == {"", "success", "blocked", "unknown"}

Txt10Dec == <<"1", "0", " ", "D", "e", "c">>
TxtDec10 == <<"D", "e", "c", " ", "1", "0">>

\* The filter arguments and the clock of one call.
Configs ==
    LET C(d, t, now) == [date |-> d, time |-> t, now |-> now]
        dec10 == <<12, 10>>
    IN  { C(<<>>, None, dec10),
          C(Txt10Dec, None, dec10),
          C(TxtDec10, Some(Clock(10, 0, 5)), dec10),
          C(Txt10Dec, Some(Clock(25, 0, 0)), dec10),
          C(Txt10Dec, Some(<<"a", "b">>), dec10),
          C(<<"1">>, None, dec10),
          C(<<"0">>, None, dec10),
          C(<<"-", "1">>, None, dec10),
          C(<<"a", "b", "c">>, None, dec10),
          C(<<"7", " ", "F", "o", "o">>, None, dec10),
          C(<<"7", " ", "D", "e", "c", "e", "m", "b", "e", "r">>, None, dec10) }

Init ==
    /\ \E c \in Configs :
          /\ date_filter = c.date
          /\ time_filter = c.time
          /\ today = c.now
    /\ pc = "start"
    /\ start_datetime = None
    /\ date_patterns = None
    /\ lines = <<>>
    /\ path = <<>>
    /\ messages = <<>>
    /\ order = <<>>
    /\ query = None
    /\ report = <<>>
    /\ summary = None
    /\ again = None
    /\ search = None
    /\ entries = <<>>
    /\ criteria = None
    /\ filtered = None

\* process_logs up to the loop: the filter arguments are parsed.
Start ==
    /\ pc = "start"
    /\ LET r == parse_date_time_for_comparison(date_filter, time_filter)
       IN  IF r.raised
           THEN /\ pc' = "error"
                /\ UNCHANGED <<start_datetime, date_patterns>>
           ELSE /\ pc' = "scan"
                /\ start_datetime' = r.val
                /\ date_patterns' = IF date_filter # <<>> /\ r.val = None
                                    THEN parse_date_filter(date_filter, today)
                                    ELSE None
    /\ UNCHANGED <<date_filter, time_filter, today, lines, path, messages, order,
                   reportVars, entryVars, search>>

\* One iteration of the for loop, on the next line of the input.
Scan(line) ==
    /\ pc = "scan"
    /\ LET r == LoopBody(line, messages, start_datetime, date_patterns, date_filter)
       IN  /\ lines' = Append(lines, line)
           /\ path' = Append(path, r.path)
           /\ messages' = r.msgs
           /\ order' = OrderAfter(order, r.path, extract_queue_id(line))
           /\ pc' = IF r.path = "raised" THEN "error" ELSE "scan"
    /\ UNCHANGED <<date_filter, time_filter, today, start_datetime, date_patterns,
                   reportVars, entryVars, search>>

ScanLine(line) == Len(lines) < MaxLines /\ Scan(line)

\* The input is exhausted: process_logs returns messages.
Finish ==
    /\ pc = "scan"
    /\ pc' = "done"
    /\ UNCHANGED <<date_filter, time_filter, today, start_datetime, date_patterns,
                   lines, path, messages, order, reportVars, entryVars, search>>

Next == Start \/ (\E line \in Lines : ScanLine(line)) \/ Finish

Spec == Init /\ [][Next]_vars

(***************************************************************************)
(* process_logs called a second time on the lines and filter arguments of  *)
(* the first call, with the clock at now.                                  *)
(***************************************************************************)
Clocks == { <<12, 10>>, <<12, 12>> }

CallAgain(now) ==
    /\ pc = "done"
    /\ pc' = "twice"
    /\ again' = LET r == process_logs(lines, date_filter, time_filter, now)
                IN  Some([now |-> now, raised |-> r.raised, val |-> r.val])
    /\ UNCHANGED <<date_filter, time_filter, today, start_datetime, date_patterns,
                   lines, path, messages, order, query, report, summary, entryVars, search>>

NextTwice == Next \/ \E now \in Clocks : CallAgain(now)

SpecTwice == Init /\ [][NextTwice]_vars

(***************************************************************************)
(* The main CLI: get_delivery_report collects the parsed entries, then     *)
(* filter_entries is called on them.                                       *)
(***************************************************************************)
\* The number of entries of one report.
MaxEntries == 2

StatusSent == <<"s", "e", "n", "t">>
StatusDeferred == <<"d", "e", "f", "e", "r", "r", "e", "d">>
QidAB1 == <<"A", "B", "1">>
QidDE2 == <<"D", "E", "2">>

Entry(queue_id, email, status) == [queue_id |-> queue_id, email |-> email, status |-> status]

\* The entries parse_log_entry may return.
Entries ==
    { Entry(QidAB1, <<"B", "o", "b", "@", "y">>, StatusSent),
      Entry(QidAB1, <<"a", "@", "x">>, StatusDeferred),
      Entry(QidDE2, <<"b", "@", "y">>, StatusSent),
      Entry(QidDE2, <<"a", "@", "x">>, StatusSent) }

Recipients == { None, Empty, Some(<<"B", "@">>), Some(<<"b", "o", "b">>), Some(<<"@", "x">>) }
Statuses == { None, Some(StatusSent), Some(<<"S", "E", "N", "T">>), Some(StatusDeferred) }
QueueIds == { None, Empty, Some(QidAB1), Some(<<"a", "b", "1">>), Some(<<"d", "e", "2">>) }

InitEntries == Init /\ date_filter = <<>>

\* entries.append(parsed) in the loop of get_delivery_report.
Collect(parsed) ==
    /\ filtered = None
    /\ Len(entries) < MaxEntries
    /\ entries' = Append(entries, parsed)
    /\ UNCHANGED <<date_filter, time_filter, today, pc, start_datetime, date_patterns,
                   lines, path, messages, order, reportVars, criteria, filtered, search>>

\* filtered_entries = reporter.filter_entries(entries, recipient, status, queue_id)
FilterEntries(recipient, status, queue_id) ==
    /\ filtered = None
    /\ criteria' = Some([recipient |-> recipient, status |-> status, queue_id |-> queue_id])
    /\ filtered' = Some(filter_entries(entries, recipient, status, queue_id))
    /\ UNCHANGED <<date_filter, time_filter, today, pc, start_datetime, date_patterns,
                   lines, path, messages, order, reportVars, entries, search>>

NextEntries ==
    \/ \E parsed \in Entries : Collect(parsed)
    \/ \E recipient \in Recipients, status \in Statuses, queue_id \in QueueIds :
          FilterEntries(recipient, status, queue_id)

SpecEntries == InitEntries /\ [][NextEntries]_vars

(***************************************************************************)
(* The simple-search variant: one call of its process_logs.                *)
(***************************************************************************)
\* The lines the variant may meet.
SimpleLines ==
    { Line(TsLate, Q1, AddrA, None, Size512, {}),
      Line(TsLate, Q1, None, AddrB, None, {SentMarker}),
      Line(TsLate, Q1, AddrA, AddrUp, None, {SentMarker, SendgridMarker}),
      Line(TsLate, Q1, AddrC, None, None, {"NOQUEUE: reject"}),
      Line(Ts(Dec, 2, <<"9">>, Clock(23, 59, 59)), Q2, AddrA, AddrB, None, {}),
      Line(TsLate, None, AddrA, AddrB, None, {}),
      Line(TsLate, Q2, None, None, None, {}) }

SimpleSearches ==
    { [search_term |-> t, search_type |-> ty] :
        t \in { <<>>, <<"a", "@">>, <<"A", "@">> }, ty \in SearchTypes }

InitSimple ==
    /\ date_filter \in {<<>>, TxtDec10}
    /\ \E s \in SimpleSearches : search = Some(s)
    /\ time_filter = None
    /\ today = <<12, 10>>
    /\ pc = "scan"
    /\ start_datetime = None
    /\ date_patterns = None
    /\ lines = <<>>
    /\ path = <<>>
    /\ messages = <<>>
    /\ order = <<>>
    /\ query = None
    /\ report = <<>>
    /\ summary = None
    /\ again = None
    /\ entries = <<>>
    /\ criteria = None
    /\ filtered = None

\* One iteration of the for loop of the variant, on the next line of the input.
SimpleScan(line) ==
    /\ pc = "scan"
    /\ Len(lines) < MaxMail
    /\ LET r == simple_LoopBody(line, messages, search[1].search_term,
                                search[1].search_type, date_filter)
       IN  /\ lines' = Append(lines, line)
           /\ path' = Append(path, r.path)
           /\ messages' = r.msgs
           /\ order' = OrderAfter(order, r.path, extract_queue_id(line))
           /\ pc' = IF r.path = "raised" THEN "error" ELSE "scan"
    /\ UNCHANGED <<date_filter, time_filter, today, start_datetime, date_patterns,
                   reportVars, entryVars, search>>

NextSimple == (\E line \in SimpleLines : SimpleScan(line)) \/ Finish

SpecSimple == InitSimple /\ [][NextSimple]_vars

(***************************************************************************)
(* main: process_logs, then print_report on what it returned.              *)
(***************************************************************************)
InitMain == Init /\ date_filter \in {<<>>, Txt10Dec} /\ time_filter = None

ReadLine(line) == Len(lines) < MaxMail /\ Scan(line)

Report(search_term, search_type, status_filter) ==
    /\ pc = "done"
    /\ pc' = "reported"
    /\ query' = Some([search_term |-> search_term, search_type |-> search_type,
                      status_filter |-> status_filter])
    /\ report' = print_report(messages, order, search_term, search_type, status_filter)
    /\ summary' = Some(status_counts(report'))
    /\ UNCHANGED <<date_filter, time_filter, today, start_datetime, date_patterns,
                   lines, path, messages, order, again, entryVars, search>>

NextMain ==
    \/ Start
    \/ \E line \in MailLines : ReadLine(line)
    \/ Finish
    \/ \E search_term \in SearchTerms, search_type \in SearchTypes,
           status_filter \in StatusFilters :
          Report(search_term, search_type, status_filter)

SpecMain == InitMain /\ [][NextMain]_vars

(***************************************************************************)
(* Properties.                                                             *)
(***************************************************************************)
Idx == 1..Len(lines)
Last == Len(lines)

\* Line k went past the date filter.
PassedFilter(k) == path[k] \in {"noqid", "blocked", "merged"}

\* Line k was attributed to queue id q and changed its entry.
ProcessedFor(k, q) == path[k] \in {"blocked", "merged"} /\ lines[k].qid = Some(q)

\* The value a from=<...>/to=<...>/size= field of a line carries: absent when
\* the line has no such field or an empty one.
Carried(opt) == IF opt = None \/ opt = Some(<<>>) THEN None ELSE opt

\* The queue ids found on the lines that passed the date filter.
SeenIds == {lines[k].qid[1] : k \in {j \in Idx : PassedFilter(j) /\ lines[j].qid # None}}

\* C1 (key set only): the keys of the returned mapping are the ids of the
\* lines that passed the date filter.
KeysAreSeenIds == pc = "done" => DOMAIN messages = SeenIds

\* C1: the keys of the returned mapping are exactly the queue ids found on the
\* lines that passed the date filter, one record each, and a call on an empty
\* input returns the empty mapping without raising.
C1_KeysAndEmptyInput ==
    /\ pc = "done" => DOMAIN messages = SeenIds
    /\ pc = "done" => Len(order) = Cardinality(DOMAIN messages)
    /\ lines = <<>> => pc # "error"
    /\ (lines = <<>> /\ pc = "done") => messages = <<>>

\* C2: right after a blocking line of queue id q, the entry of q is Blocked,
\* its sender and recipient are those carried by that line alone ("-" when it
\* carries none) and its size is "-", whatever the entry was before.
C2_BlockedOverwrites ==
    (lines # <<>> /\ path[Last] = "blocked") =>
        LET line == lines[Last]
            rec == messages[line.qid[1]]
        IN  /\ rec.status = "blocked"
            /\ rec.from = (IF Carried(line.from) = None THEN DASH ELSE line.from[1])
            /\ rec.to = (IF Carried(line.to) = None THEN DASH ELSE line.to[1])
            /\ rec.size = DASH

\* C2 witness: the entry had sender a@x and size 512, then a rejection that
\* carries only sender c@z left sender c@z, no recipient and no size.
C2_Witness ==
    /\ Len(lines) = 2
    /\ path = <<"merged", "blocked">>
    /\ lines[1].qid = Q1 /\ lines[1].from = AddrA /\ lines[1].size = Size512
    /\ lines[2].qid = Q1 /\ lines[2].from = AddrC /\ lines[2].to = None
    /\ messages[Q1[1]].from = AddrC[1]
    /\ messages[Q1[1]].to = DASH
    /\ messages[Q1[1]].size = DASH
    /\ messages[Q1[1]].status = "blocked"

\* C3 as claimed: an entry that is Blocked stays Blocked over every later line.
C3_BlockedIsTerminal ==
    [][\A q \in DOMAIN messages :
          messages[q].status = "blocked" => messages'[q].status = "blocked"]_vars

\* C3 amended: a Blocked entry stays Blocked over every later line but a
\* standard (non-blocking) line of the same queue id that contains
\* status=sent, which makes it Sent.
C3_BlockedUntilSent ==
    [][\A q \in DOMAIN messages :
          (messages[q].status = "blocked" /\ messages'[q].status # "blocked") =>
              /\ Len(lines') = Len(lines) + 1
              /\ path'[Len(path')] = "merged"
              /\ lines'[Len(lines')].qid = Some(q)
              /\ SentMarker \in lines'[Len(lines')].markers
              /\ messages'[q].status = "sent"]_vars

\* C3 witness: a deferral of q followed by a status=sent line of q left q Sent.
C3_Witness ==
    /\ Len(lines) = 2
    /\ path = <<"blocked", "merged">>
    /\ lines[1].qid = Q1 /\ lines[2].qid = Q1
    /\ "status=deferred" \in lines[1].markers
    /\ SentMarker \in lines[2].markers
    /\ messages[Q1[1]].status = "sent"

\* The value carried by the last standard line of q, among the lines consumed,
\* on which the field named f is present ("-" when there is none).
LastCarried(q, f) ==
    LET hits == {k \in Idx : ProcessedFor(k, q) /\ Carried(lines[k][f]) # None}
    IN  IF hits = {} THEN DASH
        ELSE lines[CHOOSE k \in hits : \A j \in hits : j <= k][f][1]

NoBlockingLineFor(q) == \A k \in Idx : ~(ProcessedFor(k, q) /\ path[k] = "blocked")

\* C4: while no blocking line of q has been met, sender, recipient and size of
\* q's entry are each the value carried by the last line of q that carries the
\* field (in particular in the mapping returned).
C4_LastObservedWins ==
    \A q \in DOMAIN messages :
        NoBlockingLineFor(q) =>
            /\ messages[q].from = LastCarried(q, "from")
            /\ messages[q].to = LastCarried(q, "to")
            /\ messages[q].size = LastCarried(q, "size")

\* C4 witness: sender a@x then sender c@z on two lines of q: the returned
\* sender is c@z, that of the second line (the reversed feed ends with a@x).
C4_Witness ==
    /\ pc = "done"
    /\ Len(lines) = 2
    /\ path = <<"merged", "merged">>
    /\ lines[1].qid = Q1 /\ lines[2].qid = Q1
    /\ lines[1].from = AddrA /\ lines[2].from = AddrC
    /\ lines[1].size = Size512 /\ lines[2].size = Size2048
    /\ messages[Q1[1]].from = AddrC[1]
    /\ messages[Q1[1]].size = Size2048[1]

\* C5: a timestamp once set is changed by no line but a blocking line of the
\* same queue id.
C5_TimestampFirstWins ==
    [][\A q \in DOMAIN messages :
          (messages[q].time # DASH /\ messages'[q].time # messages[q].time) =>
              /\ Len(lines') = Len(lines) + 1
              /\ path'[Len(path')] = "blocked"
              /\ lines'[Len(lines')].qid = Some(q)]_vars

\* C5 witness: two standard lines of q with the timestamps 09:00:00 and
\* 10:00:05; the entry keeps the first.
C5_Witness ==
    /\ Len(lines) = 2
    /\ path = <<"merged", "merged">>
    /\ lines[1].qid = Q1 /\ lines[2].qid = Q1
    /\ lines[1].ts = Ts(Dec, 1, <<"1", "0">>, Clock(9, 0, 0))
    /\ lines[2].ts = TsLate
    /\ messages[Q1[1]].time = extract_timestamp(lines[1])[1]
    /\ messages[Q1[1]].time # extract_timestamp(lines[2])[1]

\* C6: a line that fails the active date filter leaves the mapping as it was.
C6_FilteredLineIsInert ==
    [][(Len(path') = Len(path) + 1 /\ path'[Len(path')] = "filtered") =>
          messages' = messages]_vars

\* C6 witness: a line of q that fails the filter, met after q has an entry and
\* carrying a field that would have changed it; the entry is as the first
\* line left it.
C6_Witness ==
    /\ Len(lines) = 2
    /\ path = <<"merged", "filtered">>
    /\ lines[1].qid = Q1 /\ lines[2].qid = Q1
    /\ lines[1].from = AddrC /\ lines[2].from = AddrA
    /\ messages[Q1[1]].from = AddrC[1]

IsMonthAbbr(t) == \E m \in 1..12 : MonthAbbr[m] = t

\* The line has a timestamp token that names a date and time of the year.
HasParseableTs(line) ==
    /\ line.ts # None
    /\ IsMonthAbbr(line.ts[1].mon)
    /\ MakeDatetime(Strptime(line.ts[1].mon).val, DigitsToInt(line.ts[1].day, 0),
                    DigitsToInt(SubSeq(line.ts[1].time, 1, 2), 0),
                    DigitsToInt(SubSeq(line.ts[1].time, 4, 5), 0),
                    DigitsToInt(SubSeq(line.ts[1].time, 7, 8), 0)) # None

LineOrdinal(line) ==
    MakeDatetime(Strptime(line.ts[1].mon).val, DigitsToInt(line.ts[1].day, 0),
                 DigitsToInt(SubSeq(line.ts[1].time, 1, 2), 0),
                 DigitsToInt(SubSeq(line.ts[1].time, 4, 5), 0),
                 DigitsToInt(SubSeq(line.ts[1].time, 7, 8), 0))[1]

\* C7: with a calendar date (and optional time, 00:00:00 when absent) as the
\* filter, a line goes past the filter exactly when it has a parseable
\* timestamp at or after the threshold, and a line without a parseable
\* timestamp is skipped.
C7_ThresholdFilter ==
    /\ (pc # "start" /\ date_filter = Txt10Dec /\ time_filter = None) =>
           start_datetime = MakeDatetime(12, 10, 0, 0, 0)
    /\ start_datetime # None =>
           \A k \in Idx :
               /\ PassedFilter(k) <=>
                      (HasParseableTs(lines[k]) /\ LineOrdinal(lines[k]) >= start_datetime[1])
               /\ ~HasParseableTs(lines[k]) => path[k] = "filtered"

\* C7, the part the code keeps: the same, for the lines whose timestamp token
\* has a month abbreviation as its word (or that have no token at all).
ThresholdFilterOnMonthWords ==
    start_datetime # None =>
        \A k \in Idx :
            (lines[k].ts = None \/ IsMonthAbbr(lines[k].ts[1].mon)) =>
                /\ PassedFilter(k) <=>
                       (HasParseableTs(lines[k]) /\ LineOrdinal(lines[k]) >= start_datetime[1])
                /\ ~HasParseableTs(lines[k]) => path[k] = "filtered"

\* The syslog text of a date: month, two blanks and the day when the day has
\* one digit, month, one blank and the day when it has two.
SyslogDate(d) ==
    LET day == IntToText(d[2])
    IN  MonthAbbr[d[1]] \o (IF Len(day) = 1 THEN <<" ", " ">> ELSE <<" ">>) \o day

\* The line carries the syslog timestamp of date d.
DatedOn(line, d) ==
    /\ line.ts # None
    /\ TsText(line.ts[1]) = SyslogDate(d) \o <<" ">> \o line.ts[1].time

\* C8: with an integer N >= 0 as the filter, a line goes past the filter
\* exactly when its raw text contains the syslog date text of one of the N+1
\* days today .. N days ago; with N = 1 the lines of today and yesterday go
\* past it and the lines of two days ago do not.
C8_LookbackFilter ==
    IsDigit(date_filter) =>
        LET N == DigitsToInt(date_filter, 0)
            texts == {SyslogDate(DaysAgo(today, i)) : i \in 0..N}
        IN  \A k \in Idx :
                /\ PassedFilter(k) <=> \E t \in texts : Contains(RawText(lines[k]), t)
                /\ (N = 1 /\ (DatedOn(lines[k], today) \/ DatedOn(lines[k], DaysAgo(today, 1))))
                       => PassedFilter(k)
                /\ (N = 1 /\ DatedOn(lines[k], DaysAgo(today, 2))) => path[k] = "filtered"

\* C8 witness: filter "1" on the 10th: a line of `Dec  9` was processed and a
\* line of `Dec  8` was skipped.
C8_Witness ==
    /\ date_filter = <<"1">>
    /\ Len(lines) = 2
    /\ path = <<"merged", "filtered">>
    /\ DatedOn(lines[1], <<12, 9>>)
    /\ DatedOn(lines[2], <<12, 8>>)
    /\ DOMAIN messages = {Q1[1]}

\* date names a day of a month: a day number and a month abbreviation.
IsCalendarDate(date) ==
    LET parts == SplitBlank(date)
    IN  \E i, j \in 1..Len(parts) :
            /\ IsDigit(parts[i]) /\ Len(parts[i]) <= 2
            /\ IsMonthAbbr(parts[j])
            /\ MakeDatetime(Strptime(parts[j]).val, DigitsToInt(parts[i], 0), 0, 0, 0) # None

\* time names a time of day: up to three numbers H[:M[:S]] in range.
IsTimeOfDay(time) ==
    LET pieces == SplitColon(time)
        num(k) == IF Len(pieces) >= k THEN DigitsToInt(pieces[k], 0) ELSE 0
    IN  /\ Len(pieces) <= 3
        /\ \A k \in 1..Len(pieces) : IsDigit(pieces[k])
        /\ MakeDatetime(1, 1, num(1), num(2), num(3)) # None

\* The filter arguments are neither a lookback count nor a date with an
\* optional time.
Unparseable(date, time) ==
    /\ date # <<>>
    /\ ~IsDigit(date)
    /\ ~(IsCalendarDate(date) /\ (time = None \/ IsTimeOfDay(time[1])))

NoFilterInForce ==
    /\ start_datetime = None
    /\ date_patterns = None \/ date_patterns[1] = <<>>
    /\ \A k \in Idx : PassedFilter(k)

\* C9: filter arguments that are no date, time or lookback count raise no
\* error and leave the scan unfiltered: every line goes past the filter.
C9_BadFilterIsNoFilter ==
    Unparseable(date_filter, time_filter) => (pc # "error" /\ NoFilterInForce)

\* C9, the part the code keeps: the arguments that raise nothing leave the
\* scan unfiltered.
BadFilterThatParsesIsNoFilter ==
    (Unparseable(date_filter, time_filter) /\ pc # "error") => NoFilterInForce

\* C10: no line raises an error out of the loop, whatever it contains and
\* whatever filter is active; the scan goes on with the next line.
C10_NoLineAbortsScan == \A k \in Idx : path[k] # "raised"

(***************************************************************************)
(* C11 (as stated): the time of a record is the text of the first          *)
(* timestamp seen for its queue id, as it stands in the log line: for the  *)
(* two example lines of ABCDEF1234 the record holds "Dec  5 10:00:00",     *)
(* from a@x, to b@y, size 512, status sent.                                *)
(***************************************************************************)
\* Whether line k is the first processed line of q that has a timestamp.
FirstStamped(k, q) ==
    /\ ProcessedFor(k, q)
    /\ lines[k].ts # None
    /\ \A j \in 1..(k - 1) : ~(ProcessedFor(j, q) /\ lines[j].ts # None)

IsExampleRun == date_filter = <<>> /\ lines = <<ExampleFirst, ExampleSecond>>

C11_TimeIsSourceText ==
    /\ \A q \in DOMAIN messages : \A k \in Idx :
          (NoBlockingLineFor(q) /\ FirstStamped(k, q))
              => messages[q].time = TsText(lines[k].ts[1])
    /\ IsExampleRun =>
          messages[Q1[1]] = [from |-> AddrA[1], to |-> AddrB[1], size |-> Size512[1],
                             status |-> "sent", sg |-> "No",
                             time |-> <<"D", "e", "c", " ", " ", "5", " ",
                                        "1", "0", ":", "0", "0", ":", "0", "0">>]

(***************************************************************************)
(* C11 (amended): the time of a record is the first timestamp seen for its *)
(* queue id rewritten day first, "<day> <month> <HH:MM:SS>" with the day   *)
(* as a plain number and single blanks: for the two example lines the      *)
(* record holds "5 Dec 10:00:00", from a@x, to b@y, size 512, status sent. *)
(***************************************************************************)
\* The day without leading zeros or blanks, as int() and str() leave it.
PlainDay(day) == IF Len(day) = 2 /\ day[1] = "0" THEN <<day[2]>> ELSE day

DayFirst(ts) == PlainDay(ts.day) \o <<" ">> \o ts.mon \o <<" ">> \o ts.time

C11_TimeIsDayFirst ==
    /\ \A q \in DOMAIN messages : \A k \in Idx :
          (NoBlockingLineFor(q) /\ FirstStamped(k, q))
              => messages[q].time = DayFirst(lines[k].ts[1])
    /\ IsExampleRun =>
          messages[Q1[1]] = [from |-> AddrA[1], to |-> AddrB[1], size |-> Size512[1],
                             status |-> "sent", sg |-> "No",
                             time |-> <<"5", " ", "D", "e", "c", " ",
                                        "1", "0", ":", "0", "0", ":", "0", "0">>]

C11_Witness == IsExampleRun /\ pc = "done" /\ path = <<"merged", "merged">>

(***************************************************************************)
(* C12: with a non-empty search term, a useful record that passes the      *)
(* status filter is reported if and only if the field the target selects   *)
(* is set and contains the term as a substring, letter case ignored        *)
(* (sender: from; recipient: to; both: either).  An unset field never      *)
(* matches, and a recipient search leaves out a record whose sender        *)
(* contains the term while its recipient does not.                         *)
(***************************************************************************)
SameLetter(a, b) == a = b \/ \E i \in 1..Len(Capitals) : {a, b} = {Capitals[i], Smalls[i]}

\* Whether field (a text, DASH when unset) is set and contains term, case ignored.
SetAndContains(field, term) ==
    /\ field # DASH
    /\ \E k \in 0..(Len(field) - Len(term)) :
          \A i \in 1..Len(term) : SameLetter(field[k + i], term[i])

Reported(q) == \E i \in 1..Len(report) : report[i].qid = q

\* The status criterion of a report, as the claims put it.
StatusCriterion(rec, status_filter) ==
    CASE status_filter = "success" -> rec.status = "sent"
      [] status_filter = "blocked" -> rec.status = "blocked"
      [] status_filter = "unknown" -> rec.status = "-"
      [] OTHER -> TRUE

\* The search criterion of a report, as the claims put it.
SearchCriterion(rec, term, target) ==
    CASE target = "sender" -> SetAndContains(rec.from, term)
      [] target = "recipient" -> SetAndContains(rec.to, term)
      [] OTHER -> SetAndContains(rec.from, term) \/ SetAndContains(rec.to, term)

C12_SearchFilter ==
    (pc = "reported" /\ query[1].search_term # <<>>) =>
        \A q \in DOMAIN messages :
            /\ (IsUseful(messages[q]) /\ StatusCriterion(messages[q], query[1].status_filter))
                  => (Reported(q) <=>
                        SearchCriterion(messages[q], query[1].search_term, query[1].search_type))
            /\ (/\ query[1].search_type = "recipient"
                /\ SetAndContains(messages[q].from, query[1].search_term)
                /\ ~SetAndContains(messages[q].to, query[1].search_term))
                  => ~Reported(q)

\* A recipient search for "A@": ABCDEF1234, from a@x to b@y, is left out,
\* AA11BB22CC33, to A@y, is kept.
C12_Witness ==
    /\ pc = "reported"
    /\ query[1] = [search_term |-> <<"A", "@">>, search_type |-> "recipient",
                   status_filter |-> ""]
    /\ DOMAIN messages = {Q1[1], Q2[1]}
    /\ messages[Q1[1]].from = AddrA[1] /\ messages[Q1[1]].to = AddrB[1]
    /\ ~Reported(Q1[1])
    /\ messages[Q2[1]].to = AddrUp[1]
    /\ Reported(Q2[1])

(***************************************************************************)
(* C19: the reported records are exactly the useful records that meet      *)
(* every active criterion at once: the search term on the chosen target    *)
(* (when a term is given) and the status filter (success: status sent;     *)
(* blocked: status blocked; unknown: status unset; none: any status).      *)
(* Each is reported once, with its record as process_logs returned it.     *)
(***************************************************************************)
C19_ReportedSet ==
    pc = "reported" =>
        /\ \A q \in DOMAIN messages :
              Reported(q) <=>
                 /\ IsUseful(messages[q])
                 /\ query[1].search_term # <<>> =>
                       SearchCriterion(messages[q], query[1].search_term, query[1].search_type)
                 /\ query[1].status_filter = "success" => messages[q].status = "sent"
                 /\ query[1].status_filter = "blocked" => messages[q].status = "blocked"
                 /\ query[1].status_filter = "unknown" => messages[q].status = "-"
        /\ \A i \in 1..Len(report) :
              /\ report[i].qid \in DOMAIN messages
              /\ report[i].info = messages[report[i].qid]
              /\ \A j \in 1..Len(report) : report[j].qid = report[i].qid => j = i

\* A search for "A@" in both fields with status filter unknown: AA11BB22CC33
\* (from a@x, no outcome) is reported, ABCDEF1234 (from a@x, sent) is not.
C19_Witness ==
    /\ pc = "reported"
    /\ query[1] = [search_term |-> <<"A", "@">>, search_type |-> "both",
                   status_filter |-> "unknown"]
    /\ DOMAIN messages = {Q1[1], Q2[1]}
    /\ messages[Q1[1]].from = AddrA[1] /\ messages[Q1[1]].status = "sent"
    /\ messages[Q2[1]].from = AddrA[1] /\ messages[Q2[1]].status = "-"
    /\ Reported(Q2[1]) /\ ~Reported(Q1[1])

(***************************************************************************)
(* C13 (as stated): a second call of process_logs on the same lines with   *)
(* the same date and time filter strings returns the same mapping as the   *)
(* first, in every filter mode.                                            *)
(***************************************************************************)
C13_PureFunctionOfInput ==
    pc = "twice" => (~again[1].raised /\ again[1].val = messages)

(***************************************************************************)
(* C13 (amended): the second call returns the same mapping as the first    *)
(* when both calls run on the same date, or when the date filter is not a  *)
(* lookback count (no filter, an absolute date, an unusable filter).       *)
(***************************************************************************)
\* Whether the date filter is a lookback count: digits only.
IsLookbackCount(dfilter) == dfilter # <<>> /\ \A i \in 1..Len(dfilter) : dfilter[i] \in Digits

C13_SameDateSameMapping ==
    (pc = "twice" /\ (again[1].now = today \/ ~IsLookbackCount(date_filter)))
        => (~again[1].raised /\ again[1].val = messages)

\* A lookback of one day, called twice on the same day, on lines of which
\* one passed the filter and one did not.
C13_Witness ==
    /\ pc = "twice"
    /\ date_filter = <<"1">>
    /\ again[1].now = today
    /\ \E j, k \in Idx : path[j] = "filtered" /\ path[k] = "merged"
    /\ again[1].val = messages

(***************************************************************************)
(* C14: the reported records, after search and status filtering, stand in  *)
(* the order in which their queue ids were first seen among the lines past *)
(* the date filter; a record a later blocking line replaced keeps the      *)
(* place of its first line.                                                *)
(***************************************************************************)
\* The index of the first processed line of q.
FirstSeen(q) == CHOOSE k \in Idx : ProcessedFor(k, q) /\ \A j \in 1..(k - 1) : ~ProcessedFor(j, q)

C14_ReportOrder ==
    pc = "reported" =>
        \A i, j \in 1..Len(report) :
            i < j => FirstSeen(report[i].qid) < FirstSeen(report[j].qid)

\* ABCDEF1234 is seen first, then AA11BB22CC33, then a blocking line replaces
\* the record of ABCDEF1234: it is still reported first.
C14_Witness ==
    /\ pc = "reported"
    /\ Len(lines) = 3
    /\ ProcessedFor(1, Q1[1]) /\ ProcessedFor(2, Q2[1])
    /\ ProcessedFor(3, Q1[1]) /\ path[3] = "blocked"
    /\ Len(report) = 2
    /\ report[1].qid = Q1[1] /\ report[1].info.status = "blocked"
    /\ report[2].qid = Q2[1]

(***************************************************************************)
(* C15: a line with both status=sent and a blocking marker is handled as   *)
(* a blocking line only: right after it the record has status blocked,     *)
(* and neither the size nor the timestamp of that line is in the record    *)
(* (size unset; time the date filter text, or unset without one).          *)
(***************************************************************************)
SentAndBlocked(line) == SentMarker \in line.markers /\ line.markers \cap BlockedMarkers # {}

C15_BlockedBeforeSent ==
    \A q \in DOMAIN messages :
        (Len(lines) > 0 /\ ProcessedFor(Last, q) /\ SentAndBlocked(lines[Last])) =>
            /\ path[Last] = "blocked"
            /\ messages[q].status = "blocked"
            /\ messages[q].size = DASH
            /\ messages[q].time = (IF date_filter = <<>> THEN DASH ELSE date_filter)

\* The line with milter-reject, status=sent, size=512 and a timestamp has been
\* processed after a first line of the same queue id.
C15_Witness ==
    /\ Len(lines) = 2
    /\ path = <<"merged", "blocked">>
    /\ SentAndBlocked(lines[2])
    /\ lines[2].size = Size512 /\ lines[2].ts # None
    /\ lines[1].qid = lines[2].qid
    /\ messages[Q1[1]].status = "blocked"

(***************************************************************************)
(* C16 (as stated): the relay flag sg of a record is Yes if any processed  *)
(* line of its queue id had the transport marker, whatever lines, blocking *)
(* lines included, came before or after it.                                *)
(***************************************************************************)
HasMarker(k, q) == ProcessedFor(k, q) /\ SendgridMarker \in lines[k].markers

C16_AnyMarkerSetsFlag ==
    \A q \in DOMAIN messages :
        (\E k \in Idx : HasMarker(k, q)) => messages[q].sg = "Yes"

(***************************************************************************)
(* C16 (amended): the relay flag sg of a record is Yes exactly when some   *)
(* processed line of its queue id had the transport marker and no blocking *)
(* line of that id came after it: a blocking line resets the flag to       *)
(* whether that line itself has the marker.                                *)
(***************************************************************************)
C16_MarkerSinceLastBlock ==
    \A q \in DOMAIN messages :
        messages[q].sg = "Yes" <=>
            \E k \in Idx :
                /\ HasMarker(k, q)
                /\ \A j \in (k + 1)..Last : ~(ProcessedFor(j, q) /\ path[j] = "blocked")

\* A line with the marker, then a blocking line without it: the flag is No.
C16_Witness ==
    /\ Len(lines) = 2
    /\ HasMarker(1, Q1[1]) /\ path[1] = "merged"
    /\ ProcessedFor(2, Q1[1]) /\ path[2] = "blocked"
    /\ SendgridMarker \notin lines[2].markers
    /\ messages[Q1[1]].sg = "No"

(***************************************************************************)
(* C17: a blocked record never carries a size: in every state of the scan  *)
(* and in the returned mapping, a record with status blocked has size      *)
(* unset.                                                                  *)
(***************************************************************************)
C17_BlockedHasNoSize ==
    \A q \in DOMAIN messages : messages[q].status = "blocked" => messages[q].size = DASH

(***************************************************************************)
(* C18: processing a non-blocking line never reverts a field to unset: a   *)
(* record that had from, to, size, status, sg or time set before a line    *)
(* that was merged has it set after it; status sent stays sent and sg Yes  *)
(* stays Yes.                                                              *)
(***************************************************************************)
\* The fields whose unset value is the text "-".
TextFields == {"from", "to", "size", "time"}

MergedStep == Len(lines') = Len(lines) + 1 /\ path'[Len(lines')] = "merged"

C18_MergeNeverUnsets ==
    [][MergedStep =>
         \A q \in DOMAIN messages :
            /\ q \in DOMAIN messages'
            /\ \A f \in TextFields : messages[q][f] # DASH => messages'[q][f] # DASH
            /\ messages[q].status # "-" => messages'[q].status # "-"
            /\ messages[q].status = "sent" => messages'[q].status = "sent"
            /\ messages[q].sg = "Yes" => messages'[q].sg = "Yes"]_vars

\* A record with to, status sent, sg Yes and time set has had a line merged
\* into it that carries no recipient and no marker.
C18_Witness ==
    /\ Len(lines) = 2
    /\ path = <<"merged", "merged">>
    /\ ProcessedFor(1, Q1[1]) /\ ProcessedFor(2, Q1[1])
    /\ SentMarker \in lines[1].markers /\ SendgridMarker \in lines[1].markers
    /\ lines[2].to = None /\ lines[2].markers = {}
    /\ messages[Q1[1]].to # DASH /\ messages[Q1[1]].time # DASH
    /\ messages[Q1[1]].status = "sent" /\ messages[Q1[1]].sg = "Yes"

(***************************************************************************)
(* C20: filter_entries returns exactly the entries, in their original      *)
(* order, that meet every criterion given (recipient: contained in the     *)
(* email, letter case ignored; status: equal to the argument in lower      *)
(* case; queue_id: equal to the argument in upper case).  A criterion left *)
(* out (None or empty) restricts nothing, and the input list is unchanged. *)
(***************************************************************************)
Given(opt) == opt # None /\ opt[1] # <<>>

\* Whether text a is text b with every letter put in the case `to`.
IsCased(a, b, to) ==
    /\ Len(a) = Len(b)
    /\ \A i \in 1..Len(a) :
          /\ SameLetter(a[i], b[i])
          /\ a[i] \in (Upper \cup Lower) => a[i] \in to

Meets(e, c) ==
    /\ Given(c.recipient) =>
          \E k \in 0..(Len(e.email) - Len(c.recipient[1])) :
              \A i \in 1..Len(c.recipient[1]) : SameLetter(e.email[k + i], c.recipient[1][i])
    /\ Given(c.status) => IsCased(e.status, c.status[1], Lower)
    /\ Given(c.queue_id) => IsCased(e.queue_id, c.queue_id[1], Upper)

C20_FilterEntries ==
    [][filtered' # filtered =>
         /\ entries' = entries
         /\ filtered'[1] = SelectSeq(entries, LAMBDA e : Meets(e, criteria'[1]))]_vars

\* Two entries filtered by recipient "B@", status "SENT" and queue id "ab1":
\* the first (AB1, Bob@y, sent) is returned, the second (DE2, b@y, sent) is not.
C20_Witness ==
    /\ filtered # None
    /\ criteria[1] = [recipient |-> Some(<<"B", "@">>), status |-> Some(<<"S", "E", "N", "T">>),
                      queue_id |-> Some(<<"a", "b", "1">>)]
    /\ Len(entries) = 2
    /\ entries[2].queue_id = QidDE2 /\ entries[2].status = StatusSent
    /\ filtered[1] = <<entries[1]>>

(***************************************************************************)
(* C21: right after a blocking line the time of the record is the date     *)
(* filter text as the caller gave it when that is not empty, and unset     *)
(* otherwise; it is not the blocking line's own timestamp.  When it was    *)
(* left unset, the next non-blocking line of that queue id with a          *)
(* timestamp sets it.                                                      *)
(***************************************************************************)
\* Whether line k is a blocking line of q and the last line so far is the
\* first processed line of q after it that has a timestamp or is blocking.
FirstStampedSince(k, q) ==
    /\ k < Last
    /\ ProcessedFor(k, q) /\ path[k] = "blocked"
    /\ ProcessedFor(Last, q) /\ path[Last] = "merged" /\ lines[Last].ts # None
    /\ \A j \in (k + 1)..(Last - 1) :
          ProcessedFor(j, q) => (path[j] = "merged" /\ lines[j].ts = None)

C21_BlockedTimeIsDateFilter ==
    \A q \in DOMAIN messages :
        /\ (Len(lines) > 0 /\ ProcessedFor(Last, q) /\ path[Last] = "blocked") =>
              /\ date_filter # <<>> => messages[q].time = date_filter
              /\ date_filter = <<>> => messages[q].time = DASH
              /\ lines[Last].ts # None =>
                    /\ messages[q].time # DayFirst(lines[Last].ts[1])
                    /\ messages[q].time # TsText(lines[Last].ts[1])
        /\ \A k \in Idx :
              (date_filter = <<>> /\ FirstStampedSince(k, q)) =>
                  messages[q].time = DayFirst(lines[Last].ts[1])

\* With the date filter "10 Dec" a blocking line with a timestamp has just
\* been processed: the time of the record is "10 Dec".
C21_Witness ==
    /\ date_filter = Txt10Dec
    /\ Len(lines) = 2
    /\ ProcessedFor(1, Q1[1]) /\ path[1] = "merged" /\ lines[1].ts # None
    /\ ProcessedFor(2, Q1[1]) /\ path[2] = "blocked" /\ lines[2].ts # None
    /\ messages[Q1[1]].time = Txt10Dec

(***************************************************************************)
(* C22: the report drops exactly the records whose from, to, size and      *)
(* status are all unset, whatever their time and relay flag: without a     *)
(* search term and a status filter a record is reported if and only if one *)
(* of the four is set, and with them a record with none set is never       *)
(* reported.                                                               *)
(***************************************************************************)
NoneOfFourSet(rec) ==
    rec.from = DASH /\ rec.to = DASH /\ rec.size = DASH /\ rec.status = "-"

C22_UsefulRecords ==
    pc = "reported" =>
        \A q \in DOMAIN messages :
            /\ NoneOfFourSet(messages[q]) => ~Reported(q)
            /\ (query[1].search_term = <<>> /\ query[1].status_filter = "")
                  => (Reported(q) <=> ~NoneOfFourSet(messages[q]))

\* A report without criteria: AA11BB22CC33 has only a time and the relay flag
\* and is dropped, ABCDEF1234 has a sender and is reported.
C22_Witness ==
    /\ pc = "reported"
    /\ query[1].search_term = <<>> /\ query[1].status_filter = ""
    /\ DOMAIN messages = {Q1[1], Q2[1]}
    /\ NoneOfFourSet(messages[Q2[1]])
    /\ messages[Q2[1]].time # DASH /\ messages[Q2[1]].sg = "Yes"
    /\ ~Reported(Q2[1])
    /\ messages[Q1[1]].from # DASH
    /\ Reported(Q1[1])

(***************************************************************************)
(* C24: in every state of the scan the status of each record is one of     *)
(* three values (unset, sent, blocked), and in the summary of a report the *)
(* sent, blocked and unknown counts add up to the total, the number of     *)
(* reported records.                                                       *)
(***************************************************************************)
C24_CountsPartition ==
    /\ \A q \in DOMAIN messages : messages[q].status \in {"-", "sent", "blocked"}
    /\ pc = "reported" =>
          /\ summary[1].total = Len(report)
          /\ summary[1].sent_count + summary[1].blocked_count + summary[1].unknown_count
                = summary[1].total

\* A report of two records, one blocked and one without outcome.
C24_Witness ==
    /\ pc = "reported"
    /\ summary[1] = [total |-> 2, sent_count |-> 0, blocked_count |-> 1, unknown_count |-> 1]

(***************************************************************************)
(* C23: in the simple-search variant, with search type sender (recipient), *)
(* a line without a from=<...> (to=<...>) field is a silent non-match: the *)
(* line is skipped, nothing is raised, and the scan goes on with the next  *)
(* lines.                                                                  *)
(***************************************************************************)
\* Whether line k got past the date filter and lacks the field the search
\* type looks at.
LacksSearchedField(k) ==
    /\ path[k] # "filtered"
    /\ \/ search[1].search_type = "sender" /\ lines[k].from = None
       \/ search[1].search_type = "recipient" /\ lines[k].to = None

C23_MissingFieldIsSkipped ==
    /\ pc # "error"
    /\ \A k \in Idx : LacksSearchedField(k) => path[k] = "skip"

====
